---- MODULE Spec2Model ----
(***************************************************************************)
(* A model of the Gmail MCP adapter (redazzo/mcp, src/gmail).              *)
(*                                                                         *)
(* Part 1, specification Spec: the credential lifecycle, that is           *)
(* GmailClient.get_credentials with GmailClient._safe_refresh_token        *)
(* (gmail/auth.py), the legacy get_credentials (gmail_server.py) and the   *)
(* CLI wrapper initialize_gmail_service (gmail_cli.py), run against a      *)
(* token file, a clock and a provider whose answers are nondeterministic.  *)
(*                                                                         *)
(* Part 2, specification SpecContent: the worklist walk of                 *)
(* get_message_content (gmail/utils.py) over bounded MIME payload trees.   *)
(*                                                                         *)
(* Part 3, specification SpecUtils: the pure helpers normalize_message_id  *)
(* and format_email_metadata (gmail/utils.py) applied to bounded inputs.   *)
(*                                                                         *)
(* Part 4, specification SpecOps: the tool, resource and CLI handlers      *)
(* (gmail/mcp/tools.py, gmail/mcp/resources.py, gmail_cli.py,              *)
(* gmail_server.py) run one after another against a provider mailbox       *)
(* whose answers may fail.                                                 *)
(*                                                                         *)
(* Part 5, specification SpecCli: one run of gmail_cli.py, from main       *)
(* through initialize_gmail_service to the subcommand and the exit.        *)
(*                                                                         *)
(* Part 6, specification SpecLife: gmail_lifespan (gmail/server.py) and    *)
(* the GmailClient context manager (gmail/auth.py), entered and left.      *)
(***************************************************************************)
EXTENDS Naturals, Integers, Sequences, FiniteSets, TLC

VARIABLES
    tokenFile,      \* token.json: NoFile, or the JSON object stored in it
    now,            \* the wall clock
    issued,         \* number of tokens the provider has issued so far
    entry,          \* the entry point that is running: "none" when idle
    pc,             \* where the running call stands
    creds,          \* the local variable creds of get_credentials
    loaded,         \* what get_credentials read from the token file
    file0,          \* the token file as it was when the call started
    refreshOutcome, \* how creds.refresh(Request()) ended in this call
    result,         \* how the call ended: "none", "returned", "raised", "exit1"
    err,            \* the exception that left the call, "none" if none
    calls,          \* the external calls of this call, in order
    rejected,       \* the refresh tokens the provider has rejected to GmailClient
    payload,        \* message["payload"]: an arena of MIME nodes
    parts,          \* the worklist of get_message_content
    content,        \* the accumulator of get_message_content
    visited,        \* the nodes popped so far, in order
    mpc,            \* where get_message_content stands
    upc,            \* which helper of gmail/utils.py is applied, "done" after
    message_id,     \* the argument of normalize_message_id
    normalized,     \* what normalize_message_id returned
    message,        \* the argument of format_email_metadata
    metadata,       \* what format_email_metadata returned
    labelList,      \* the provider's labels, in the order labels.list gives
    msgLabels,      \* the label ids the provider holds for the message
    inv,            \* the handler that is running and its arguments
    opc,            \* where the running handler stands
    apiLog,         \* the provider calls of this invocation, in order
    label_id,       \* the local label_id of add_label_to_message
    todo,           \* the listed messages still to be fetched
    out,            \* how the handler ended
    labels0,        \* msgLabels as they were when the handler started
    list0,          \* labelList as it was when the handler started
    prev,           \* the last handler that changed the message
    messages,       \* the messages the list call of this invocation returned
    creations,      \* the names of the labels created so far, in order
    service,        \* GmailClient.service: "None" or the built service
    gmail_service,  \* the module-level gmail_service of gmail/server.py
    lpc,            \* where the lifespan or context manager stands
    scope,          \* which of the two is in use: "lifespan" or "context"
    left            \* the ways it has been left so far: pairs of scope and how

authVars == <<tokenFile, now, issued, entry, pc, creds, loaded, file0,
              refreshOutcome, result, err, calls, rejected>>
mimeVars == <<payload, parts, content, visited, mpc>>
vars == <<tokenFile, now, issued, entry, pc, creds, loaded, file0,
          refreshOutcome, result, err, calls, rejected,
          payload, parts, content, visited, mpc,
          upc, message_id, normalized, message, metadata,
          labelList, msgLabels, inv, opc, apiLog, label_id, todo, out,
          labels0, list0, prev, messages, creations,
          service, gmail_service, lpc, scope, left>>
lifeVars == <<service, gmail_service, lpc, scope, left>>
utilVars == <<upc, message_id, normalized, message, metadata>>
opsVars == <<labelList, msgLabels, inv, opc, apiLog, label_id, todo, out,
             labels0, list0, prev, messages, creations>>

----------------------------------------------------------------------------
(* Bounds of the model *)

MaxTime == 4        \* the clock stops here
MaxIssued == 3      \* the provider issues at most this many tokens
TokenLife == 2      \* an access token expires this long after it was issued

----------------------------------------------------------------------------
(* Credentials and the token file *)

\* os.path.exists(token_path) is false; Python's None
NoFile == [exists |-> FALSE]
None == [none |-> TRUE]

RefreshOutcomes == {"ok", "RefreshError", "TransportError"}
FlowOutcomes == {"ok", "FlowError"}

\* google Credentials.expired / Credentials.valid as get_credentials reads them
Expired(c) == now >= c.expiry
Valid(c) == c.token # 0 /\ ~Expired(c)

\* creds.to_json(): the fields that are set; a field that is None is left out
to_json(c) ==
    IF c.refresh_token = 0
    THEN [token |-> c.token, expiry |-> c.expiry]
    ELSE [token |-> c.token, refresh_token |-> c.refresh_token, expiry |-> c.expiry]

\* Credentials.from_authorized_user_info(json.loads(...)): a key that is
\* absent reads as None
from_authorized_user_info(info) ==
    [token |-> info.token,
     refresh_token |-> IF "refresh_token" \in DOMAIN info THEN info.refresh_token ELSE 0,
     expiry |-> info.expiry]

\* what `if os.path.exists(token_path): creds = ...` leaves in creds
LoadCreds(file) == IF file = NoFile THEN None ELSE from_authorized_user_info(file)

\* mutant: `if not creds:`, the validity of a stored credential is not looked at
NeedsNew_OnlyMissing(c) == c = None

\* mutant: a new credential is obtained on every call
NeedsNew_Always(c) == TRUE

\* `not creds or not creds.valid`
NeedsNew(c) == c = None \/ ~Valid(c)

\* mutant: `creds and creds.expired`, a refresh is tried without a refresh token
Refreshable_NoTokenCheck(c) == c # None /\ Expired(c)

\* `creds and creds.expired and creds.refresh_token`
Refreshable(c) == c # None /\ Expired(c) /\ c.refresh_token # 0

\* the effect of a successful creds.refresh(Request()): a new access token
\* and expiry, in place; the refresh token is kept
Refreshed(c) == [c EXCEPT !.token = issued + 1, !.expiry = now + TokenLife]

\* the credential flow.run_local_server(port=0) hands back
FlowCreds(withRefresh) ==
    [token |-> issued + 1,
     refresh_token |-> IF withRefresh THEN issued + 1 ELSE 0,
     expiry |-> now + TokenLife]

\* mutant: no `except RefreshError`, a rejection propagates like any failure
IsRefreshError_Never(outcome) == FALSE

\* mutant: `except Exception`, every failure of the refresh is handled as a rejection
IsRefreshError_Any(outcome) == outcome # "ok"

\* `except RefreshError as e:`
IsRefreshError(outcome) == outcome = "RefreshError"

\* mutant: the rejected token file is left in place
AfterRemove_Kept(file) == file

\* `if os.path.exists(token_path): os.remove(token_path)`
AfterRemove(file) == NoFile

\* mutant: initialize_gmail_service prints the error and returns
Escapes_Returned(e) == IF e = "cli" THEN "returned" ELSE "raised"

\* an exception leaving get_credentials: initialize_gmail_service catches it,
\* prints it and calls sys.exit(1); the other callers see it raised
Escapes(e) == IF e = "cli" THEN "exit1" ELSE "raised"

----------------------------------------------------------------------------
(* Part 1: the credential lifecycle *)

AuthInit ==
    /\ tokenFile = NoFile
    /\ now = 0
    /\ issued = 0
    /\ entry = "none"
    /\ pc = "idle"
    /\ creds = None
    /\ loaded = None
    /\ file0 = NoFile
    /\ refreshOutcome = "none"
    /\ result = "none"
    /\ err = "none"
    /\ calls = <<>>
    /\ rejected = {}

MimeIdle ==
    /\ payload = <<>>
    /\ parts = <<>>
    /\ content = <<>>
    /\ visited = <<>>
    /\ mpc = "idle"

\* no helper of gmail/utils.py is being applied
UtilIdle ==
    /\ upc = "idle"
    /\ message_id = <<>>
    /\ normalized = <<>>
    /\ message = <<>>
    /\ metadata = <<>>

\* no lifespan and no context manager has been entered: GmailClient.__init__
\* sets service to None, gmail/server.py sets gmail_service to None
LifeIdle ==
    /\ service = "None"
    /\ gmail_service = "None"
    /\ lpc = "out"
    /\ scope = "none"
    /\ left = {}

\* no handler is running
NoInvocation == [front |-> "none", name |-> "none", id |-> <<>>, label |-> <<>>, count |-> 0]

\* no handler is running and the mailbox is empty
OpsIdle ==
    /\ labelList = <<>>
    /\ msgLabels = {}
    /\ inv = NoInvocation
    /\ opc = "idle"
    /\ apiLog = <<>>
    /\ label_id = "None"
    /\ todo = <<>>
    /\ out = "none"
    /\ labels0 = {}
    /\ list0 = <<>>
    /\ prev = "none"
    /\ messages = <<>>
    /\ creations = <<>>

\* get_credentials from its first line to the first external call it waits
\* for: load the token file, then return it, refresh it or start the flow
CheckStored(e) ==
    /\ pc = "idle"
    /\ issued < MaxIssued
    /\ entry' = e
    /\ file0' = tokenFile
    /\ loaded' = LoadCreds(tokenFile)
    /\ creds' = LoadCreds(tokenFile)
    /\ refreshOutcome' = "none"
    /\ err' = "none"
    /\ calls' = <<>>
    /\ IF NeedsNew(LoadCreds(tokenFile))
       THEN /\ pc' = IF Refreshable(LoadCreds(tokenFile)) THEN "refresh" ELSE "flow"
            /\ result' = "none"
       ELSE /\ pc' = "done"
            /\ result' = "returned"
    /\ UNCHANGED <<tokenFile, now, issued, rejected>>

\* GmailClient.get_credentials, lines 73-89
GetCredentials == CheckStored("client") /\ UNCHANGED <<mimeVars, utilVars, opsVars, lifeVars>>

\* get_credentials of gmail_server.py, lines 46-62, called directly or by
\* initialize_gmail_service of gmail_cli.py
LegacyGetCredentials ==
    /\ \E e \in {"legacy", "cli"} : CheckStored(e)
    /\ UNCHANGED <<mimeVars, utilVars, opsVars, lifeVars>>

\* mutant: the new credential is returned without being written
SaveAndReturn_NoWrite(c, log) ==
    /\ creds' = c
    /\ calls' = log
    /\ result' = "returned"
    /\ err' = "none"
    /\ pc' = "done"
    /\ UNCHANGED tokenFile

\* `with open(token_path, 'w') as token: token.write(creds.to_json())` and
\* `return creds`
SaveAndReturn(c, log) ==
    /\ creds' = c
    /\ tokenFile' = to_json(c)
    /\ calls' = Append(log, "write")
    /\ result' = "returned"
    /\ err' = "none"
    /\ pc' = "done"

\* an exception propagates out of get_credentials
Raise(e, log) ==
    /\ err' = e
    /\ result' = Escapes(entry)
    /\ calls' = log
    /\ pc' = "done"
    /\ UNCHANGED <<creds, tokenFile>>

\* mutant: the refreshed credential is returned but never written back
SafeRefreshToken_NoSave(outcome) ==
    /\ pc = "refresh"
    /\ entry = "client"
    /\ refreshOutcome' = outcome
    /\ CASE outcome = "ok" ->
              /\ SaveAndReturn_NoWrite(Refreshed(creds), Append(calls, "refresh"))
              /\ issued' = issued + 1
         [] IsRefreshError(outcome) ->
              /\ tokenFile' = AfterRemove(tokenFile)
              /\ calls' = IF tokenFile # NoFile
                          THEN calls \o <<"refresh", "remove">>
                          ELSE Append(calls, "refresh")
              /\ pc' = "flow"
              /\ UNCHANGED <<creds, result, err, issued>>
         [] OTHER ->
              /\ Raise(outcome, Append(calls, "refresh"))
              /\ UNCHANGED issued
    /\ rejected' = IF outcome = "RefreshError"
                   THEN rejected \cup {creds.refresh_token}
                   ELSE rejected
    /\ UNCHANGED <<now, entry, loaded, file0>>
    /\ UNCHANGED <<mimeVars, utilVars, opsVars, lifeVars>>

\* GmailClient._safe_refresh_token, and what get_credentials does with its
\* result, for one answer of the provider to creds.refresh(Request())
SafeRefreshToken(outcome) ==
    /\ pc = "refresh"
    /\ entry = "client"
    /\ refreshOutcome' = outcome
    /\ CASE outcome = "ok" ->
              /\ SaveAndReturn(Refreshed(creds), Append(calls, "refresh"))
              /\ issued' = issued + 1
         [] IsRefreshError(outcome) ->
              \* except RefreshError: remove the token file, start the flow
              /\ tokenFile' = AfterRemove(tokenFile)
              /\ calls' = IF tokenFile # NoFile
                          THEN calls \o <<"refresh", "remove">>
                          ELSE Append(calls, "refresh")
              /\ pc' = "flow"
              /\ UNCHANGED <<creds, result, err, issued>>
         [] OTHER ->
              /\ Raise(outcome, Append(calls, "refresh"))
              /\ UNCHANGED issued
    /\ rejected' = IF outcome = "RefreshError"
                   THEN rejected \cup {creds.refresh_token}
                   ELSE rejected
    /\ UNCHANGED <<now, entry, loaded, file0>>
    /\ UNCHANGED <<mimeVars, utilVars, opsVars, lifeVars>>

\* gmail_server.get_credentials, line 59: creds.refresh(Request()) with no
\* handler around it
LegacyRefresh(outcome) ==
    /\ pc = "refresh"
    /\ entry \in {"legacy", "cli"}
    /\ refreshOutcome' = outcome
    /\ IF outcome = "ok"
       THEN /\ SaveAndReturn(Refreshed(creds), Append(calls, "refresh"))
            /\ issued' = issued + 1
       ELSE /\ Raise(outcome, Append(calls, "refresh"))
            /\ UNCHANGED issued
    /\ UNCHANGED <<now, entry, loaded, file0, rejected>>
    /\ UNCHANGED <<mimeVars, utilVars, opsVars, lifeVars>>

\* InstalledAppFlow.from_client_secrets_file(...).run_local_server(port=0)
\* and what follows it: the new credential is written and returned, or the
\* failure of the flow propagates
RunLocalServer(outcome, withRefresh) ==
    /\ pc = "flow"
    /\ IF outcome = "ok"
       THEN /\ SaveAndReturn(FlowCreds(withRefresh), Append(calls, "flow"))
            /\ issued' = issued + 1
       ELSE /\ Raise(outcome, Append(calls, "flow"))
            /\ UNCHANGED issued
    /\ UNCHANGED <<now, entry, loaded, file0, refreshOutcome, rejected>>
    /\ UNCHANGED <<mimeVars, utilVars, opsVars, lifeVars>>

\* the caller takes the result; the process is ready for the next call
Finish ==
    /\ pc = "done"
    /\ pc' = "idle"
    /\ entry' = "none"
    /\ creds' = None
    /\ loaded' = None
    /\ file0' = NoFile
    /\ refreshOutcome' = "none"
    /\ result' = "none"
    /\ err' = "none"
    /\ calls' = <<>>
    /\ UNCHANGED <<tokenFile, now, issued, rejected>>
    /\ UNCHANGED <<mimeVars, utilVars, opsVars, lifeVars>>

\* time passes between two calls
Tick ==
    /\ pc = "idle"
    /\ now < MaxTime
    /\ now' = now + 1
    /\ UNCHANGED <<tokenFile, issued, entry, pc, creds, loaded, file0,
                   refreshOutcome, result, err, calls, rejected>>
    /\ UNCHANGED <<mimeVars, utilVars, opsVars, lifeVars>>

Init == AuthInit /\ MimeIdle /\ UtilIdle /\ OpsIdle /\ LifeIdle

Next ==
    \/ GetCredentials
    \/ LegacyGetCredentials
    \/ \E o \in RefreshOutcomes : SafeRefreshToken(o)
    \/ \E o \in RefreshOutcomes : LegacyRefresh(o)
    \/ \E o \in FlowOutcomes, r \in BOOLEAN : RunLocalServer(o, r)
    \/ Finish
    \/ Tick

Spec == Init /\ [][Next]_vars

----------------------------------------------------------------------------
(* Part 2: get_message_content *)

MaxNodes == 4       \* a payload tree has at most this many MIME nodes

\* Text is a sequence of Unicode code points, bytes a sequence of 0..255,
\* base64 text a sequence of one-character strings.

\* the alphabet of base64.urlsafe_b64encode / urlsafe_b64decode
UrlsafeAlphabet ==
    <<"A", "B", "C", "D", "E", "F", "G", "H", "I", "J", "K", "L", "M",
      "N", "O", "P", "Q", "R", "S", "T", "U", "V", "W", "X", "Y", "Z",
      "a", "b", "c", "d", "e", "f", "g", "h", "i", "j", "k", "l", "m",
      "n", "o", "p", "q", "r", "s", "t", "u", "v", "w", "x", "y", "z",
      "0", "1", "2", "3", "4", "5", "6", "7", "8", "9", "-", "_">>

\* what a decoder raises instead of returning (binascii.Error,
\* UnicodeDecodeError)
DecodeError == <<-1>>

\* str.encode('utf-8')
RECURSIVE Utf8Encode(_)
Utf8Encode(text) ==
    IF text = <<>> THEN <<>>
    ELSE LET cp == Head(text)
             first == IF cp < 128 THEN <<cp>>
                      ELSE IF cp < 2048
                      THEN <<192 + (cp \div 64), 128 + (cp % 64)>>
                      ELSE <<224 + (cp \div 4096), 128 + ((cp \div 64) % 64),
                             128 + (cp % 64)>>
         IN first \o Utf8Encode(Tail(text))

\* base64.urlsafe_b64encode(...).decode('utf-8'): three bytes become four
\* letters, a last group of one or two bytes is padded with "="
RECURSIVE UrlsafeB64Encode(_)
UrlsafeB64Encode(bytes) ==
    IF bytes = <<>> THEN <<>>
    ELSE LET b1 == bytes[1]
             b2 == IF Len(bytes) >= 2 THEN bytes[2] ELSE 0
             b3 == IF Len(bytes) >= 3 THEN bytes[3] ELSE 0
             c1 == UrlsafeAlphabet[(b1 \div 4) + 1]
             c2 == UrlsafeAlphabet[((b1 % 4) * 16 + (b2 \div 16)) + 1]
             c3 == UrlsafeAlphabet[((b2 % 16) * 4 + (b3 \div 64)) + 1]
             c4 == UrlsafeAlphabet[(b3 % 64) + 1]
         IN IF Len(bytes) = 1 THEN <<c1, c2, "=", "=">>
            ELSE IF Len(bytes) = 2 THEN <<c1, c2, c3, "=">>
            ELSE <<c1, c2, c3, c4>> \o UrlsafeB64Encode(SubSeq(bytes, 4, Len(bytes)))

\* the value of a letter of the url-safe alphabet
B64Value(ch) == (CHOOSE i \in 1..64 : UrlsafeAlphabet[i] = ch) - 1

\* base64.urlsafe_b64decode(data): four letters become three bytes, "="
\* padding ends the data; a wrong length is binascii.Error
RECURSIVE urlsafe_b64decode(_)
urlsafe_b64decode(data) ==
    IF data = <<>> THEN <<>>
    ELSE IF Len(data) < 4 THEN DecodeError
    ELSE LET v1 == B64Value(data[1])
             v2 == B64Value(data[2])
             b1 == v1 * 4 + (v2 \div 16)
         IN IF data[3] = "=" THEN <<b1>>
            ELSE LET v3 == B64Value(data[3])
                     b2 == (v2 % 16) * 16 + (v3 \div 4)
                 IN IF data[4] = "=" THEN <<b1, b2>>
                    ELSE LET b3 == (v3 % 4) * 64 + B64Value(data[4])
                             rest == urlsafe_b64decode(SubSeq(data, 5, Len(data)))
                         IN IF rest = DecodeError THEN DecodeError
                            ELSE <<b1, b2, b3>> \o rest

IsContinuation(b) == b \in 128..191

\* bytes.decode("utf-8"): a byte sequence that is not UTF-8 is
\* UnicodeDecodeError
RECURSIVE Utf8Decode(_)
Utf8Decode(bytes) ==
    IF bytes = <<>> THEN <<>>
    ELSE IF bytes = DecodeError THEN DecodeError
    ELSE LET b1 == bytes[1]
             n == IF b1 < 128 THEN 1
                  ELSE IF b1 \in 194..223 THEN 2
                  ELSE IF b1 \in 224..239 THEN 3
                  ELSE 0
         IN IF n = 0 \/ Len(bytes) < n THEN DecodeError
            ELSE IF \E k \in 2..n : ~IsContinuation(bytes[k]) THEN DecodeError
            ELSE LET cp == IF n = 1 THEN b1
                           ELSE IF n = 2 THEN (b1 - 192) * 64 + (bytes[2] - 128)
                           ELSE (b1 - 224) * 4096 + (bytes[2] - 128) * 64
                                + (bytes[3] - 128)
                     rest == Utf8Decode(SubSeq(bytes, n + 1, Len(bytes)))
                 IN IF rest = DecodeError THEN DecodeError ELSE <<cp>> \o rest

\* mutant: .decode("latin-1"), every byte is read as one character
DecodeBody_Latin1(data) == urlsafe_b64decode(data)

\* base64.urlsafe_b64decode(part["body"]["data"]).decode("utf-8")
DecodeBody(data) == Utf8Decode(urlsafe_b64decode(data))

\* mutant: parts.pop(), the worklist is used as a stack
Pop_Last(queue) ==
    [part |-> queue[Len(queue)], rest |-> SubSeq(queue, 1, Len(queue) - 1)]

\* part = parts.pop(0)
Pop(queue) == [part |-> Head(queue), rest |-> Tail(queue)]

\* mutant: the children of a text/plain node are not enqueued
PartsOf_UnlessPlain(part) ==
    IF "parts" \in DOMAIN part /\ part.mimeType # "text/plain"
    THEN part.parts ELSE <<>>

\* part.get("parts"), None read as the empty list
PartsOf(part) == IF "parts" \in DOMAIN part THEN part.parts ELSE <<>>

\* mutant: every text/* part counts, part.get("mimeType").startswith("text/")
IsPlainText_AnyText(part) ==
    "mimeType" \in DOMAIN part /\ part.mimeType \in {"text/plain", "text/html"}

\* part.get("mimeType") == "text/plain"
IsPlainText(part) == "mimeType" \in DOMAIN part /\ part.mimeType = "text/plain"

\* part.get("body") and part["body"].get("data")
HasInlineData(part) ==
    /\ "body" \in DOMAIN part
    /\ "data" \in DOMAIN part.body
    /\ part.body.data # <<>>

(* The messages the provider hands out *)

\* the text of the body of node i: one-, two- and three-byte code points,
\* all three paddings, and the letters "-" and "_" in the encodings
Texts ==
    <<  <<72, 105>>,         \* "Hi"    SGk=
        <<233>>,             \* e-acute w6k=
        <<65, 65, 62>>,      \* "AA>"   QUE-
        <<8364>>,            \* euro    4oKs
        <<65, 960>>,         \* "A" pi  Qc-A
        <<65, 65, 63>>  >>   \* "AA?"   QUE_
TextOf(i) == Texts[((i - 1) % Len(Texts)) + 1]

\* the text of node i of a message of n nodes
BodyText(i, n) == TextOf(i + n - 1)

\* the bytes of a text/html body: UTF-8, or Latin-1 bytes that are no UTF-8
HtmlBytes(i, n) == IF i % 2 = 1 THEN Utf8Encode(BodyText(i, n)) ELSE <<233>>

PartKinds == {"plain", "plainNoData", "html", "multipart"}

\* one MIME node as the API returns it; a node without children has no
\* "parts" key, a multipart node has no "body" key
Part(i, n, kind, children) ==
    LET base ==
            CASE kind = "plain" ->
                   [mimeType |-> "text/plain", partId |-> i,
                    body |-> [size |-> Len(Utf8Encode(BodyText(i, n))),
                              data |-> UrlsafeB64Encode(Utf8Encode(BodyText(i, n)))]]
              [] kind = "plainNoData" ->
                   [mimeType |-> "text/plain", partId |-> i,
                    body |-> [size |-> 7, attachmentId |-> i]]
              [] kind = "html" ->
                   [mimeType |-> "text/html", partId |-> i,
                    body |-> [size |-> Len(HtmlBytes(i, n)),
                              data |-> UrlsafeB64Encode(HtmlBytes(i, n))]]
              [] OTHER ->
                   [mimeType |-> "multipart/alternative", partId |-> i]
    IN IF children = <<>> THEN base ELSE base @@ [parts |-> children]

RECURSIVE SortedSeq(_, _)
SortedSeq(S, desc) ==
    IF S = {} THEN <<>>
    ELSE LET x == IF desc THEN CHOOSE m \in S : \A y \in S : y <= m
                  ELSE CHOOSE m \in S : \A y \in S : m <= y
         IN <<x>> \o SortedSeq(S \ {x}, desc)

\* the parent of every node but the root: a node with a smaller number
Shapes(n) == {p \in [2..n -> 1..n] : \A j \in 2..n : p[j] < j}

\* the payload tree of n nodes with the given parents and kinds: node 1 is
\* the root, siblings are listed in ascending or in descending order of
\* their numbers
Payload(n, parent, kind, desc) ==
    [i \in 1..n |->
        Part(i, n, kind[i], SortedSeq({j \in 2..n : parent[j] = i}, desc))]

ContentInit ==
    /\ AuthInit
    /\ UtilIdle
    /\ OpsIdle
    /\ LifeIdle
    /\ \E n \in 1..MaxNodes :
         \E parent \in Shapes(n), kind \in [1..n -> PartKinds], desc \in BOOLEAN :
            payload = Payload(n, parent, kind, desc)
    /\ parts = <<>>
    /\ content = <<>>
    /\ visited = <<>>
    /\ mpc = "call"

\* parts = [message["payload"]]; content = ""
ContentStart ==
    /\ mpc = "call"
    /\ parts' = <<1>>
    /\ content' = <<>>
    /\ visited' = <<>>
    /\ mpc' = "loop"
    /\ UNCHANGED payload
    /\ UNCHANGED <<authVars, utilVars, opsVars, lifeVars>>

\* one turn of `while parts:`
ContentStep ==
    /\ mpc = "loop"
    /\ parts # <<>>
    /\ LET i == Pop(parts).part
           part == payload[i]
       IN /\ parts' = Pop(parts).rest \o PartsOf(part)
          /\ visited' = Append(visited, i)
          /\ IF IsPlainText(part) /\ HasInlineData(part)
             THEN IF DecodeBody(part.body.data) = DecodeError
                  THEN /\ mpc' = "raised"
                       /\ UNCHANGED content
                  ELSE /\ content' = content \o DecodeBody(part.body.data)
                       /\ UNCHANGED mpc
             ELSE UNCHANGED <<content, mpc>>
    /\ UNCHANGED payload
    /\ UNCHANGED <<authVars, utilVars, opsVars, lifeVars>>

\* return content
ContentReturn ==
    /\ mpc = "loop"
    /\ parts = <<>>
    /\ mpc' = "done"
    /\ UNCHANGED <<payload, parts, content, visited>>
    /\ UNCHANGED <<authVars, utilVars, opsVars, lifeVars>>

ContentNext ==
    \/ ContentStart
    \/ ContentStep
    \/ ContentReturn

SpecContent == ContentInit /\ [][ContentNext]_vars

----------------------------------------------------------------------------
(* Part 3: normalize_message_id and format_email_metadata (gmail/utils.py) *)
(* Identifiers and header values are sequences of one-character strings;   *)
(* the empty string is the empty sequence.                                 *)

MaxIdLen == 7
MaxHeaders == 4

\* the characters identifiers are drawn from
IdChars == {"i", "d", "_", "X"}

\* the literal "id_"
IdPrefix == <<"i", "d", "_">>

\* s.startswith(p)
StartsWith(s, p) == Len(s) >= Len(p) /\ SubSeq(s, 1, Len(p)) = p

\* s[k:]
Drop(s, k) == SubSeq(s, k + 1, Len(s))

\* mutant: the prefix is stripped a second time when it is still there
normalize_message_id_Twice(id) ==
    IF StartsWith(id, IdPrefix)
    THEN IF StartsWith(Drop(id, 3), IdPrefix) THEN Drop(id, 6) ELSE Drop(id, 3)
    ELSE id

\* if message_id_str.startswith("id_"): return message_id_str[3:]
normalize_message_id(id) ==
    IF StartsWith(id, IdPrefix) THEN Drop(id, 3) ELSE id

\* the exception a missing key raises
KeyError == [raised |-> "KeyError"]

\* {h["name"]: h["value"] for h in headers}: a later header of the same name
\* replaces an earlier one
HeaderDict(hs) ==
    [n \in {hs[k].name : k \in 1..Len(hs)} |->
        LET last == CHOOSE k \in 1..Len(hs) :
                        /\ hs[k].name = n
                        /\ \A j \in 1..Len(hs) : hs[j].name = n => j <= k
        IN  hs[last].value]

\* mutant: the key is looked up ignoring case
Get_IgnoreCase(d, key, default) ==
    LET lower(n) == CASE n \in {"From", "from"} -> "from"
                      [] n \in {"To", "to"} -> "to"
                      [] n \in {"Subject", "SUBJECT", "subject"} -> "subject"
                      [] n \in {"Date", "date"} -> "date"
                      [] OTHER -> n
    IN  IF \E k \in DOMAIN d : lower(k) = lower(key)
        THEN d[CHOOSE k \in DOMAIN d : lower(k) = lower(key)]
        ELSE default

\* dict.get(key, default)
Get(d, key, default) == IF key \in DOMAIN d THEN d[key] ELSE default

\* mutant: the sender is read from the To header
format_email_metadata_FromTo(m) ==
    LET headers == HeaderDict(m.payload.headers) IN
    IF ~ ({"id", "threadId"} \subseteq DOMAIN m) THEN KeyError
    ELSE [id |-> m.id,
          threadId |-> m.threadId,
          labelIds |-> Get(m, "labelIds", <<>>),
          snippet |-> Get(m, "snippet", <<>>),
          from |-> Get(headers, "To", <<>>),
          to |-> Get(headers, "To", <<>>),
          subject |-> Get(headers, "Subject", <<>>),
          date |-> Get(headers, "Date", <<>>)]

\* format_email_metadata: message["id"] and message["threadId"] are
\* subscripts, every other field is read with .get and a default
format_email_metadata(m) ==
    LET headers == HeaderDict(m.payload.headers) IN
    IF ~ ({"id", "threadId"} \subseteq DOMAIN m) THEN KeyError
    ELSE [id |-> m.id,
          threadId |-> m.threadId,
          labelIds |-> Get(m, "labelIds", <<>>),
          snippet |-> Get(m, "snippet", <<>>),
          from |-> Get(headers, "From", <<>>),
          to |-> Get(headers, "To", <<>>),
          subject |-> Get(headers, "Subject", <<>>),
          date |-> Get(headers, "Date", <<>>)]

\* the header names the provider may send
HeaderNames == {"From", "To", "Subject", "Date", "from", "SUBJECT"}

\* the value of the k-th header of a message: k characters, so that no two
\* headers of one message carry the same value
ValueAt(k) == [j \in 1..k |-> "v"]

\* the header list with the given names
Headers(names) == [k \in 1..Len(names) |-> [name |-> names[k], value |-> ValueAt(k)]]

\* the label lists a message may carry; "absent" stands for no labelIds key
LabelIdLists == {<<"absent">>, <<"INBOX", "UNREAD">>, <<"UNREAD", "INBOX">>}

\* a message as users.messages.get returns it
Message(names, labelIds, withSnippet) ==
    LET base == [id |-> "12345", threadId |-> "thread123",
                 payload |-> [headers |-> Headers(names)]]
        withLabels == IF labelIds = <<"absent">> THEN base
                      ELSE base @@ [labelIds |-> labelIds]
    IN  IF withSnippet THEN withLabels @@ [snippet |-> <<"s">>] ELSE withLabels

UtilInit ==
    /\ AuthInit
    /\ MimeIdle
    /\ OpsIdle
    /\ LifeIdle
    /\ normalized = <<>>
    /\ metadata = <<>>
    /\ \/ /\ upc = "normalize"
          /\ \E n \in 0..MaxIdLen : \E id \in [1..n -> IdChars] : message_id = id
          /\ message = <<>>
       \/ /\ upc = "format"
          /\ message_id = <<>>
          /\ \E n \in 0..MaxHeaders :
               \E names \in [1..n -> HeaderNames], l \in LabelIdLists, s \in BOOLEAN :
                  message = Message(names, l, s)

\* normalized_id = normalize_message_id(message_id)
Normalize ==
    /\ upc = "normalize"
    /\ normalized' = normalize_message_id(message_id)
    /\ upc' = "normalized"
    /\ UNCHANGED <<message_id, message, metadata>>
    /\ UNCHANGED <<authVars, mimeVars, opsVars, lifeVars>>

\* metadata = format_email_metadata(message)
Format ==
    /\ upc = "format"
    /\ metadata' = format_email_metadata(message)
    /\ upc' = "formatted"
    /\ UNCHANGED <<message_id, message, normalized>>
    /\ UNCHANGED <<authVars, mimeVars, opsVars, lifeVars>>

UtilNext == Normalize \/ Format

SpecUtils == UtilInit /\ [][UtilNext]_vars

----------------------------------------------------------------------------
(* Part 4: the handlers of the three front ends against the provider.      *)
(* "tool" is GmailTools (gmail/mcp/tools.py; the tools of gmail_server.py  *)
(* have the same bodies), "resource" is GmailResources                     *)
(* (gmail/mcp/resources.py), "cli" is the subcommands of gmail_cli.py.     *)
(* The provider holds one message, whose labels are tracked, and a list of *)
(* user labels; every provider call may fail.                              *)

MaxLabels == 2
MaxPage == 2

Fronts == {"tool", "resource", "cli"}

\* the handlers of a front end, under the names of gmail_cli.py
HandlerNames(front) ==
    IF front = "resource"
    THEN {"get_labels", "get_inbox", "get_message", "search_emails"}
    ELSE {"get_labels", "get_inbox", "get_message", "search_emails",
          "send_email", "create_draft", "add_label", "get_thread",
          "mark_as_read", "mark_as_unread", "archive_message", "trash_message"}

\* the handlers that list messages
ListingNames == {"get_inbox", "search_emails"}

\* the handlers that take a message or thread identifier
IdNames == {"get_message", "add_label", "get_thread", "mark_as_read",
            "mark_as_unread", "archive_message", "trash_message"}

\* the identifier under which the provider holds the message and its thread
TheMessage == <<"X">>

\* the identifiers the provider lists: the message and one more
Listed == {<<"X">>, <<"X", "X">>}

\* the identifiers callers supply: as the provider gives them, and with the
\* prefix a host runtime puts in front, once or twice
CallerIds == {TheMessage, IdPrefix \o TheMessage, IdPrefix \o IdPrefix \o TheMessage}

\* the label names of the model: "Wk", "wk" and "h"
LabelNames == {<<"W", "k">>, <<"w", "k">>, <<"h">>}

\* the ids the provider gives to user labels, in the order it creates them
LabelIds == <<"L1", "L2", "L3", "L4">>

\* the result counts callers ask for
RequestedCounts == {-1, 0, 1, 10, 50, 51, 100, 101, 500}

\* str.lower() on one character of the label names
LowerChar(c) == CASE c = "W" -> "w" [] c = "K" -> "k" [] c = "H" -> "h" [] OTHER -> c

\* str.lower()
Lower(s) == [k \in 1..Len(s) |-> LowerChar(s[k])]

Min2(a, b) == IF a <= b THEN a ELSE b
Max2(a, b) == IF a >= b THEN a ELSE b

\* a provider request: the API method and the arguments that matter
Request(api, id, add, remove, name, filter, maxResults) ==
    [api |-> api, id |-> id, add |-> add, remove |-> remove, name |-> name,
     filter |-> filter, maxResults |-> maxResults]

\* users().labels().list(userId='me')
list_labels == Request("labels.list", <<>>, {}, {}, <<>>, "none", 0)

\* users().labels().create(userId='me', body={'name': name})
create_label(name) == Request("labels.create", <<>>, {}, {}, name, "none", 0)

\* users().messages().list(userId='me', labelIds=['INBOX'] or q=query, maxResults=...)
list_messages(filter, max_results) ==
    Request("messages.list", <<>>, {}, {}, <<>>, filter, max_results)

\* users().messages().get(userId='me', id=message_id)
get_message(id) == Request("messages.get", id, {}, {}, <<>>, "none", 0)

\* users().threads().get(userId='me', id=thread_id)
get_thread(id) == Request("threads.get", id, {}, {}, <<>>, "none", 0)

\* users().messages().send(userId='me', body={'raw': ...})
send_message == Request("messages.send", <<>>, {}, {}, <<>>, "none", 0)

\* users().drafts().create(userId='me', body=...)
create_draft == Request("drafts.create", <<>>, {}, {}, <<>>, "none", 0)

\* users().messages().modify(userId='me', id=message_id, body=body): a key of
\* the body is present only for a non-empty list
modify_message(id, add_label_ids, remove_label_ids) ==
    Request("messages.modify", id, add_label_ids, remove_label_ids, <<>>, "none", 0)

\* users().messages().trash(userId='me', id=message_id)
trash_message(id) == Request("messages.trash", id, {}, {}, <<>>, "none", 0)

\* mutant: the message is archived as well
mark_as_read_AndArchive(id) == modify_message(id, {}, {"UNREAD", "INBOX"})

\* modify_message(message_id, remove_label_ids=['UNREAD'])
mark_as_read(id) == modify_message(id, {}, {"UNREAD"})

\* modify_message(message_id, add_label_ids=['UNREAD'])
mark_as_unread(id) == modify_message(id, {"UNREAD"}, {})

\* mutant: the message is marked as read as well
archive_message_AndRead(id) == modify_message(id, {}, {"INBOX", "UNREAD"})

\* modify_message(message_id, remove_label_ids=['INBOX'])
archive_message(id) == modify_message(id, {}, {"INBOX"})

\* the identifier a front end passes on: the tools and the message resource
\* call normalize_message_id, the CLI passes its argument as it is
IdArg(front, id) == IF front = "cli" THEN id ELSE normalize_message_id(id)

\* max_results = min(max(1, max_results), 50) of the get_inbox_messages tool
ClampInbox(n) == Min2(Max2(1, n), 50)

\* mutant: the search tool clamps like the inbox tool
ClampSearch_Fifty(n) == Min2(Max2(1, n), 50)

\* max_results = min(max(1, max_results), 100) of the search_emails_tool
ClampSearch(n) == Min2(Max2(1, n), 100)

\* the maxResults a listing handler sends: the tools clamp, the resources
\* send 10, the CLI sends its --max argument
MaxResultsArg(front, name, n) ==
    CASE front = "tool" /\ name = "get_inbox" -> ClampInbox(n)
      [] front = "tool" /\ name = "search_emails" -> ClampSearch(n)
      [] front = "resource" -> 10
      [] OTHER -> n

\* the first provider call of a handler
FirstRequest(front, name, id, count) ==
    CASE name = "get_labels" -> list_labels
      [] name = "get_inbox" -> list_messages("INBOX", MaxResultsArg(front, name, count))
      [] name = "search_emails" -> list_messages("q", MaxResultsArg(front, name, count))
      [] name = "get_message" -> get_message(IdArg(front, id))
      [] name = "send_email" -> send_message
      [] name = "create_draft" -> create_draft
      [] name = "add_label" -> list_labels
      [] name = "get_thread" -> get_thread(IdArg(front, id))
      [] name = "mark_as_read" -> mark_as_read(IdArg(front, id))
      [] name = "mark_as_unread" -> mark_as_unread(IdArg(front, id))
      [] name = "archive_message" -> archive_message(IdArg(front, id))
      [] name = "trash_message" -> trash_message(IdArg(front, id))

\* mutant: the CLI subcommands have the try blocks of the tools
Catches_LikeTools(front, name, api) ==
    CASE front = "resource" -> FALSE
      [] OTHER -> /\ name \notin {"get_labels", "get_inbox", "search_emails"}
                  /\ ~ (name = "add_label" /\ api = "labels.list")

\* whether a try/except of the handler encloses the provider call: every CLI
\* subcommand is one try block, no resource has one, and of the tools
\* get_labels_tool, get_inbox_messages and search_emails_tool have none and
\* add_label_to_message calls list_labels before its first try
Catches(front, name, api) ==
    CASE front = "cli" -> TRUE
      [] front = "resource" -> FALSE
      [] OTHER -> /\ name \notin {"get_labels", "get_inbox", "search_emails"}
                  /\ ~ (name = "add_label" /\ api = "labels.list")

\* mutant: the label name is compared as it is
FirstMatch_CaseSensitive(labels, label_name) ==
    LET hits == {k \in 1..Len(labels) : labels[k].name = label_name}
    IN  IF hits = {} THEN "None"
        ELSE labels[CHOOSE k \in hits : \A j \in hits : k <= j].id

\* for label in labels: if label['name'].lower() == label_name.lower():
\*     label_id = label['id']; break
FirstMatch(labels, label_name) ==
    LET hits == {k \in 1..Len(labels) : Lower(labels[k].name) = Lower(label_name)}
    IN  IF hits = {} THEN "None"
        ELSE labels[CHOOSE k \in hits : \A j \in hits : k <= j].id

\* mutant: `if not label_id` is gone, a label is created on every call
NeedsCreate_Always(id) == TRUE

\* mutant: no label is ever created
NeedsCreate_Never(id) == FALSE

\* if not label_id:
NeedsCreate(id) == id = "None"

\* the mailbox the provider may hold when the server starts, no handler running
OpsInit ==
    /\ AuthInit
    /\ MimeIdle
    /\ UtilIdle
    /\ LifeIdle
    /\ \E n \in 0..MaxLabels : \E names \in [1..n -> LabelNames] :
          labelList = [k \in 1..n |-> [id |-> LabelIds[k], name |-> names[k]]]
    /\ msgLabels \in SUBSET {"INBOX", "UNREAD"}
    /\ inv = NoInvocation
    /\ opc = "idle"
    /\ apiLog = <<>>
    /\ label_id = "None"
    /\ todo = <<>>
    /\ out = "none"
    /\ labels0 = {}
    /\ list0 = <<>>
    /\ prev = "none"
    /\ messages = <<>>
    /\ creations = <<>>

\* a handler is called and runs up to its first provider call
Invoke(front, name, id, label, count) ==
    /\ opc = "idle"
    /\ inv' = [front |-> front, name |-> name, id |-> id, label |-> label, count |-> count]
    /\ apiLog' = <<FirstRequest(front, name, id, count)>>
    /\ opc' = "await"
    /\ label_id' = "None"
    /\ todo' = <<>>
    /\ out' = "none"
    /\ labels0' = msgLabels
    /\ list0' = labelList
    /\ messages' = <<>>
    /\ UNCHANGED creations
    /\ UNCHANGED <<labelList, msgLabels, prev>>
    /\ UNCHANGED <<authVars, mimeVars, utilVars, lifeVars>>

\* the provider call the handler is waiting for
Pending == apiLog[Len(apiLog)]

\* the pending call raised: an enclosing except returns (the CLI prints) an
\* "Error ..." text, otherwise the exception leaves the handler
CallFailed ==
    /\ out' = IF Catches(inv.front, inv.name, Pending.api) THEN "error" ELSE "raised"
    /\ opc' = "done"

\* the handler returns (the CLI prints) its result text
CallFinished ==
    /\ out' = "text"
    /\ opc' = "done"

\* labels.list answers: get_labels formats the list, add_label looks the name
\* up and goes on to create the label or to modify the message
ListLabelsAnswer(ok) ==
    /\ opc = "await"
    /\ Pending.api = "labels.list"
    /\ IF ~ok
       THEN CallFailed /\ UNCHANGED <<apiLog, label_id>>
       ELSE IF inv.name = "get_labels"
       THEN CallFinished /\ UNCHANGED <<apiLog, label_id>>
       ELSE LET found == FirstMatch(labelList, inv.label) IN
            /\ label_id' = found
            /\ apiLog' = Append(apiLog,
                   IF NeedsCreate(found)
                   THEN create_label(inv.label)
                   ELSE modify_message(IdArg(inv.front, inv.id), {found}, {}))
            /\ UNCHANGED <<opc, out>>
    /\ UNCHANGED <<labelList, msgLabels, inv, todo, labels0, list0, prev>>
    /\ UNCHANGED <<messages, creations>>
    /\ UNCHANGED <<authVars, mimeVars, utilVars, lifeVars>>

\* the text add_label returns (the CLI prints) when the given provider call
\* raises inside a try block
AddLabelError(front, api) ==
    CASE front = "cli" -> "Error adding label to message"
      [] api = "labels.create" -> "Error creating label"
      [] OTHER -> "Error adding label to message"

\* mutant: the except of the create call does not return, the handler goes on
\* to the modify call with label_id still None
CreateLabelAnswer_GoesOn(ok) ==
    /\ opc = "await"
    /\ Pending.api = "labels.create"
    /\ ok => Len(labelList) < MaxLabels
    /\ IF ok
       THEN LET created == [id |-> LabelIds[Len(labelList) + 1], name |-> Pending.name] IN
            /\ labelList' = Append(labelList, created)
            /\ label_id' = created.id
            /\ apiLog' = Append(apiLog,
                   modify_message(IdArg(inv.front, inv.id), {created.id}, {}))
            /\ UNCHANGED <<opc, out>>
       ELSE /\ apiLog' = Append(apiLog,
                   modify_message(IdArg(inv.front, inv.id), {label_id}, {}))
            /\ UNCHANGED <<labelList, label_id, opc, out>>
    /\ UNCHANGED <<msgLabels, inv, todo, labels0, list0, prev>>
    /\ creations' = IF ok THEN Append(creations, Pending.name) ELSE creations
    /\ UNCHANGED messages
    /\ UNCHANGED <<authVars, mimeVars, utilVars, lifeVars>>

\* labels.create answers: label_id = created_label['id'], then the modify call
CreateLabelAnswer(ok) ==
    /\ opc = "await"
    /\ Pending.api = "labels.create"
    /\ ok => Len(labelList) < MaxLabels
    /\ IF ok
       THEN LET created == [id |-> LabelIds[Len(labelList) + 1], name |-> Pending.name] IN
            /\ labelList' = Append(labelList, created)
            /\ label_id' = created.id
            /\ apiLog' = Append(apiLog,
                   modify_message(IdArg(inv.front, inv.id), {created.id}, {}))
            /\ UNCHANGED <<opc, out>>
       ELSE CallFailed /\ UNCHANGED <<labelList, label_id, apiLog>>
    /\ UNCHANGED <<msgLabels, inv, todo, labels0, list0, prev>>
    /\ creations' = IF ok THEN Append(creations, Pending.name) ELSE creations
    /\ UNCHANGED messages
    /\ UNCHANGED <<authVars, mimeVars, utilVars, lifeVars>>

\* messages.modify answers: the provider removes and adds the named labels
ModifyAnswer(ok) ==
    /\ opc = "await"
    /\ Pending.api = "messages.modify"
    /\ ok => Pending.id = TheMessage
    /\ IF ok
       THEN msgLabels' = (msgLabels \ Pending.remove) \cup Pending.add /\ CallFinished
       ELSE CallFailed /\ UNCHANGED msgLabels
    /\ UNCHANGED <<labelList, inv, apiLog, label_id, todo, labels0, list0, prev>>
    /\ UNCHANGED <<messages, creations>>
    /\ UNCHANGED <<authVars, mimeVars, utilVars, lifeVars>>

\* messages.trash answers
TrashAnswer(ok) ==
    /\ opc = "await"
    /\ Pending.api = "messages.trash"
    /\ ok => Pending.id = TheMessage
    /\ IF ok
       THEN msgLabels' = msgLabels \cup {"TRASH"} /\ CallFinished
       ELSE CallFailed /\ UNCHANGED msgLabels
    /\ UNCHANGED <<labelList, inv, apiLog, label_id, todo, labels0, list0, prev>>
    /\ UNCHANGED <<messages, creations>>
    /\ UNCHANGED <<authVars, mimeVars, utilVars, lifeVars>>

\* threads.get, messages.send or drafts.create answers
SimpleAnswer(ok) ==
    /\ opc = "await"
    /\ Pending.api \in {"threads.get", "messages.send", "drafts.create"}
    /\ (ok /\ Pending.api = "threads.get") => Pending.id = TheMessage
    /\ IF ok THEN CallFinished ELSE CallFailed
    /\ UNCHANGED <<labelList, msgLabels, inv, apiLog, label_id, todo, labels0, list0, prev>>
    /\ UNCHANGED <<messages, creations>>
    /\ UNCHANGED <<authVars, mimeVars, utilVars, lifeVars>>

\* mutant: the loop skips the message after the one it fetched
Remaining_SkipOne(queue) == IF Len(queue) <= 1 THEN <<>> ELSE Tail(Tail(queue))

\* `for msg in messages:` moves on; get_message has no list to walk
Remaining(queue) == IF queue = <<>> THEN <<>> ELSE Tail(queue)

\* messages.get answers: get_message formats the message; a listing handler
\* goes on to the next listed message
GetMessageAnswer(ok) ==
    /\ opc = "await"
    /\ Pending.api = "messages.get"
    /\ ok => Pending.id \in Listed
    /\ IF ok
       THEN LET rest == Remaining(todo) IN
            /\ todo' = rest
            /\ IF rest = <<>>
               THEN CallFinished /\ UNCHANGED apiLog
               ELSE apiLog' = Append(apiLog, get_message(Head(rest))) /\ UNCHANGED <<opc, out>>
       ELSE CallFailed /\ UNCHANGED <<todo, apiLog>>
    /\ UNCHANGED <<labelList, msgLabels, inv, label_id, labels0, list0, prev>>
    /\ UNCHANGED <<messages, creations>>
    /\ UNCHANGED <<authVars, mimeVars, utilVars, lifeVars>>

\* the pages the provider may answer a list call with
Pages ==
    {<<>>} \cup {<<a>> : a \in Listed}
           \cup (IF MaxPage >= 2 THEN {p \in Listed \X Listed : p[1] /= p[2]} ELSE {})

\* messages.list answers with one page: messages = results.get('messages', []),
\* then one get per listed message
ListMessagesAnswer(ok, page) ==
    /\ opc = "await"
    /\ Pending.api = "messages.list"
    /\ ok => (Pending.maxResults >= 1 => Len(page) <= Pending.maxResults)
    /\ ~ok => page = <<>>
    /\ IF ok
       THEN /\ todo' = page
            /\ IF page = <<>>
               THEN CallFinished /\ UNCHANGED apiLog
               ELSE apiLog' = Append(apiLog, get_message(Head(page))) /\ UNCHANGED <<opc, out>>
       ELSE CallFailed /\ UNCHANGED <<todo, apiLog>>
    /\ messages' = page
    /\ UNCHANGED creations
    /\ UNCHANGED <<labelList, msgLabels, inv, label_id, labels0, list0, prev>>
    /\ UNCHANGED <<authVars, mimeVars, utilVars, lifeVars>>

\* the handlers that change the labels of a message
Modifiers == {"add_label", "mark_as_read", "mark_as_unread", "archive_message", "trash_message"}

\* the handler has ended; the server is ready for the next call
Return ==
    /\ opc = "done"
    /\ prev' = IF out = "text" /\ inv.name \in Modifiers THEN inv.name ELSE prev
    /\ inv' = NoInvocation
    /\ opc' = "idle"
    /\ apiLog' = <<>>
    /\ label_id' = "None"
    /\ todo' = <<>>
    /\ out' = "none"
    /\ labels0' = {}
    /\ list0' = <<>>
    /\ messages' = <<>>
    /\ UNCHANGED creations
    /\ UNCHANGED <<labelList, msgLabels>>
    /\ UNCHANGED <<authVars, mimeVars, utilVars, lifeVars>>

OpsNext ==
    \/ \E front \in Fronts : \E name \in HandlerNames(front) \ ListingNames :
         \E id \in (IF name \in IdNames THEN CallerIds ELSE {<<>>}),
            label \in (IF name = "add_label" THEN LabelNames ELSE {<<>>}) :
            Invoke(front, name, id, label, 0)
    \/ \E ok \in BOOLEAN : ListLabelsAnswer(ok)
    \/ \E ok \in BOOLEAN : CreateLabelAnswer(ok)
    \/ \E ok \in BOOLEAN : ModifyAnswer(ok)
    \/ \E ok \in BOOLEAN : TrashAnswer(ok)
    \/ \E ok \in BOOLEAN : SimpleAnswer(ok)
    \/ \E ok \in BOOLEAN : GetMessageAnswer(ok)
    \/ Return

SpecOps == OpsInit /\ [][OpsNext]_vars

\* one mailbox, for the handlers that only read it
ListingInit ==
    /\ OpsInit
    /\ labelList = <<>>
    /\ msgLabels = {"INBOX", "UNREAD"}

ListingNext ==
    \/ \E front \in Fronts, name \in ListingNames :
         \E count \in (IF front = "resource" THEN {10} ELSE RequestedCounts) :
            Invoke(front, name, <<>>, <<>>, count)
    \/ \E ok \in BOOLEAN, page \in Pages : ListMessagesAnswer(ok, page)
    \/ \E ok \in BOOLEAN : GetMessageAnswer(ok)
    \/ Return

SpecListing == ListingInit /\ [][ListingNext]_vars

----------------------------------------------------------------------------
(* Part 5: one run of the command line program gmail_cli.py.  The token    *)
(* file is as an earlier run left it; main obtains the credential, builds  *)
(* the service and calls the function of the subcommand, which is a "cli"  *)
(* handler of Part 4.  The run has ended when result is "exit1" or the     *)
(* handler is done.                                                        *)

\* the token file an earlier run left at time t0: none, or the credential of
\* an interactive flow, with or without a refresh token
StoredFiles(t0) ==
    {NoFile} \cup {to_json([token |-> 1, refresh_token |-> r, expiry |-> t0 + TokenLife]) :
                      r \in {0, 1}}

\* the process starts: a token file, a clock and a mailbox
CliInit ==
    /\ now \in 0..MaxTime
    /\ \E t0 \in 0..MaxTime : t0 <= now /\ tokenFile \in StoredFiles(t0)
    /\ issued = IF tokenFile = NoFile THEN 0 ELSE 1
    /\ entry = "none"
    /\ pc = "idle"
    /\ creds = None
    /\ loaded = None
    /\ file0 = NoFile
    /\ refreshOutcome = "none"
    /\ result = "none"
    /\ err = "none"
    /\ calls = <<>>
    /\ rejected = {}
    /\ MimeIdle
    /\ UtilIdle
    /\ LifeIdle
    /\ labelList \in {<<>>, <<[id |-> LabelIds[1], name |-> <<"w", "k">>]>>}
    /\ msgLabels = {"INBOX", "UNREAD"}
    /\ inv = NoInvocation
    /\ opc = "idle"
    /\ apiLog = <<>>
    /\ label_id = "None"
    /\ todo = <<>>
    /\ out = "none"
    /\ labels0 = {}
    /\ list0 = <<>>
    /\ prev = "none"
    /\ messages = <<>>
    /\ creations = <<>>

\* main with a subcommand: initialize_gmail_service calls get_credentials
CliMain == CheckStored("cli") /\ UNCHANGED <<mimeVars, utilVars, opsVars, lifeVars>>

\* service = build('gmail', 'v1', credentials=creds) inside the try of
\* initialize_gmail_service: a failure is printed and the process exits with 1
BuildService(ok) ==
    /\ entry = "cli"
    /\ pc = "done"
    /\ result = "returned"
    /\ IF ok
       THEN pc' = "service" /\ UNCHANGED <<result, err>>
       ELSE pc' = "done" /\ result' = Escapes(entry) /\ err' = "BuildError"
    /\ UNCHANGED <<tokenFile, now, issued, entry, creds, loaded, file0,
                   refreshOutcome, calls, rejected>>
    /\ UNCHANGED <<mimeVars, utilVars, opsVars, lifeVars>>

\* main calls the function of the subcommand with the service and the
\* arguments as parsed
CliCommand(name, id, label, count) ==
    /\ pc = "service"
    /\ Invoke("cli", name, id, label, count)

CliNext ==
    \/ CliMain
    \/ \E o \in RefreshOutcomes : LegacyRefresh(o)
    \/ \E o \in FlowOutcomes, r \in BOOLEAN : RunLocalServer(o, r)
    \/ \E ok \in BOOLEAN : BuildService(ok)
    \/ \E name \in HandlerNames("cli") :
         \E id \in (IF name \in IdNames THEN CallerIds ELSE {<<>>}),
            label \in (IF name = "add_label" THEN LabelNames ELSE {<<>>}),
            count \in (IF name \in ListingNames THEN RequestedCounts ELSE {0}) :
            CliCommand(name, id, label, count)
    \/ \E ok \in BOOLEAN : ListLabelsAnswer(ok)
    \/ \E ok \in BOOLEAN : CreateLabelAnswer(ok)
    \/ \E ok \in BOOLEAN : ModifyAnswer(ok)
    \/ \E ok \in BOOLEAN : TrashAnswer(ok)
    \/ \E ok \in BOOLEAN : SimpleAnswer(ok)
    \/ \E ok \in BOOLEAN : GetMessageAnswer(ok)
    \/ \E ok \in BOOLEAN, page \in Pages : ListMessagesAnswer(ok, page)

SpecCli == CliInit /\ [][CliNext]_vars

----------------------------------------------------------------------------
(* Part 6: the service handle.  gmail_lifespan creates a GmailClient,       *)
(* authenticates it inside try, yields to the server and tears down in      *)
(* finally; `with GmailClient()` authenticates in __enter__ and closes in   *)
(* __exit__, which Python does not call when __enter__ raised.              *)

\* the two ways a service handle is scoped
Scopes == {"lifespan", "context"}

\* mutant: the teardown of gmail_lifespan stands after the yield, not in a
\* finally, so it is skipped when the body or the authentication raises
Teardown_NoFinally(sc, how, svc, gsvc) ==
    IF sc = "lifespan"
    THEN IF how = "normal"
         THEN [service |-> "None", gmail_service |-> "None"]
         ELSE [service |-> svc, gmail_service |-> gsvc]
    ELSE IF how = "auth_failed"
         THEN [service |-> svc, gmail_service |-> gsvc]
         ELSE [service |-> "None", gmail_service |-> gsvc]

\* what leaving does to the two handles: the finally of gmail_lifespan sets
\* gmail_service = None and calls gmail_client.close(); __exit__ calls
\* self.close() and is not called when __enter__ raised
Teardown(sc, how, svc, gsvc) ==
    IF sc = "lifespan"
    THEN [service |-> "None", gmail_service |-> "None"]
    ELSE IF how = "auth_failed"
         THEN [service |-> svc, gmail_service |-> gsvc]
         ELSE [service |-> "None", gmail_service |-> gsvc]

\* gmail_lifespan or GmailClient.__enter__ is entered: a client with
\* service None calls authenticate, which calls get_credentials
Enter(sc) ==
    /\ lpc \in {"out", "left"}
    /\ CheckStored("client")
    /\ lpc' = "auth"
    /\ scope' = sc
    /\ UNCHANGED <<service, gmail_service, left>>
    /\ UNCHANGED <<mimeVars, utilVars, opsVars>>

\* the scope is left with the given handles
LeaveWith(how) ==
    LET after == Teardown(scope, how, service, gmail_service) IN
    /\ service' = after.service
    /\ gmail_service' = after.gmail_service
    /\ lpc' = "left"
    /\ left' = left \cup {<<scope, how>>}
    /\ UNCHANGED scope

\* get_credentials returned: self.service = build('gmail', 'v1', credentials=creds);
\* gmail_lifespan also sets gmail_service and registers the components.  A
\* failure of build leaves authenticate as an exception
Authenticate(ok) ==
    /\ lpc = "auth"
    /\ pc = "done"
    /\ result = "returned"
    /\ IF ok
       THEN /\ service' = "service"
            /\ gmail_service' = IF scope = "lifespan" THEN "service" ELSE gmail_service
            /\ lpc' = "body"
            /\ UNCHANGED <<scope, left>>
       ELSE LeaveWith("auth_failed")
    /\ UNCHANGED <<authVars, mimeVars, utilVars, opsVars>>

\* get_credentials raised: the exception leaves authenticate
AuthenticateRaised ==
    /\ lpc = "auth"
    /\ pc = "done"
    /\ result = "raised"
    /\ LeaveWith("auth_failed")
    /\ UNCHANGED <<authVars, mimeVars, utilVars, opsVars>>

\* the body ends, normally or with an exception
Leave(how) ==
    /\ lpc = "body"
    /\ LeaveWith(how)
    /\ UNCHANGED <<authVars, mimeVars, utilVars, opsVars>>

\* the caller of get_credentials is done with its result
Released == lpc /= "auth" /\ Finish

LifeNext ==
    \/ \E sc \in Scopes : Enter(sc)
    \/ \E o \in RefreshOutcomes : SafeRefreshToken(o)
    \/ \E o \in FlowOutcomes, r \in BOOLEAN : RunLocalServer(o, r)
    \/ \E ok \in BOOLEAN : Authenticate(ok)
    \/ AuthenticateRaised
    \/ \E how \in {"normal", "error"} : Leave(how)
    \/ Released
    \/ Tick

SpecLife == Init /\ [][LifeNext]_vars

----------------------------------------------------------------------------
(* Claims about the credential lifecycle, checked under Spec *)

Returned == pc = "done" /\ result = "returned"
Failed == pc = "done" /\ result \in {"raised", "exit1"}
InCall == entry # "none"
Logged(c) == \E k \in 1..Len(calls) : calls[k] = c

\* C1: whenever a credential-obtaining call returns, the credential it
\* returns is valid (it has an access token that is not expired), whether it
\* was stored, refreshed or freshly authorized; a call that cannot produce
\* one ends with an error and returns nothing.
C1_ReturnedCredentialIsValid ==
    /\ Returned => (creds # None /\ Valid(creds) /\ err = "none")
    /\ Failed => err # "none"
    /\ pc = "done" => (Returned \/ Failed)

C1_Witness ==
    /\ Returned
    /\ entry = "client"
    /\ refreshOutcome = "ok"
    /\ loaded # None /\ Expired(loaded)

\* C2: in GmailClient.get_credentials, once the refresh of an expired,
\* refreshable stored credential is rejected (RefreshError), the token file
\* is removed before the interactive flow starts, the flow is what runs
\* next, and a call that returns returns the credential the flow produced,
\* valid, and the token file holds exactly that credential; the only other
\* way the call can end is the flow's own failure.
C2_RejectedRefreshReauthorizes ==
    (entry = "client" /\ refreshOutcome = "RefreshError") =>
        /\ Refreshable(loaded)
        /\ pc \in {"flow", "done"}
        /\ pc = "flow" => (tokenFile = NoFile /\ calls = <<"refresh", "remove">>)
        /\ Returned =>
              /\ calls = <<"refresh", "remove", "flow", "write">>
              /\ Valid(creds)
              /\ creds.token = issued /\ creds.token # loaded.token
              /\ LoadCreds(tokenFile) = creds
        /\ Failed =>
              /\ err = "FlowError"
              /\ calls = <<"refresh", "remove", "flow">>
              /\ tokenFile = NoFile

C2_Witness ==
    /\ entry = "client"
    /\ refreshOutcome = "RefreshError"
    /\ Returned
    /\ file0 # NoFile
    /\ tokenFile # file0

\* C3: a RefreshError raised by the refresh never reaches the caller of a
\* credential-obtaining entry point (GmailClient.get_credentials, the legacy
\* get_credentials, the CLI's initialize_gmail_service): the token file is
\* removed and the interactive flow follows.
C3_RefreshRejectedNeverSurfaced ==
    refreshOutcome = "RefreshError" =>
        /\ err # "RefreshError"
        /\ Logged("remove")
        /\ pc = "flow" \/ Logged("flow")

C5_RefreshPersistsWithoutFlow ==
    (InCall /\ refreshOutcome = "ok") =>
        /\ Refreshable(loaded)
        /\ Returned
        /\ calls = <<"refresh", "write">>
        /\ Valid(creds)
        /\ creds.token = issued /\ creds.token # loaded.token
        /\ creds.refresh_token = loaded.refresh_token
        /\ LoadCreds(tokenFile) = creds

C5_Witness ==
    /\ entry = "client"
    /\ refreshOutcome = "ok"
    /\ Returned
    /\ tokenFile # file0

\* the stored credential is absent, or expired without a refresh token
NoUsableStored == loaded = None \/ (Expired(loaded) /\ loaded.refresh_token = 0)

\* C6: when no token file is stored, or the stored credential is expired
\* and has no refresh token, the call goes to the interactive flow with no
\* refresh attempt, and a call that returns has written the credential the
\* flow produced to the token file before returning it.
C6_NoUsableCredentialRunsFlow ==
    (InCall /\ NoUsableStored) =>
        /\ refreshOutcome = "none"
        /\ ~Logged("refresh")
        /\ pc \in {"flow", "done"}
        /\ pc = "flow" => (calls = <<>> /\ tokenFile = file0)
        /\ Returned =>
              /\ calls = <<"flow", "write">>
              /\ creds.token = issued
              /\ LoadCreds(tokenFile) = creds
        /\ Failed => (err = "FlowError" /\ calls = <<"flow">> /\ tokenFile = file0)

C6_Witness ==
    /\ entry = "client"
    /\ loaded # None
    /\ Expired(loaded) /\ loaded.refresh_token = 0
    /\ Returned

\* C7: when the stored credential is present and valid, the call returns
\* that very credential at once: no refresh, no interactive flow, and the
\* token file is neither written nor removed.
C7_ValidStoredReturnedUnchanged ==
    (InCall /\ loaded # None /\ Valid(loaded)) =>
        /\ Returned
        /\ creds = loaded
        /\ calls = <<>>
        /\ refreshOutcome = "none"
        /\ tokenFile = file0

C7_Witness ==
    /\ entry = "client"
    /\ loaded # None /\ Valid(loaded)
    /\ Returned
    /\ now > 0

----------------------------------------------------------------------------
(* Claims about get_message_content, checked under SpecContent *)

NodeCount == Len(payload)
NodeIsPlain(i) == payload[i].mimeType = "text/plain"
NodeHasData(i) == "body" \in DOMAIN payload[i] /\ "data" \in DOMAIN payload[i].body
PlainWithData == {i \in 1..NodeCount : NodeIsPlain(i) /\ NodeHasData(i)}
ListedChildren(i) == IF "parts" \in DOMAIN payload[i] THEN payload[i].parts ELSE <<>>

\* the children of the nodes of one level, parent by parent, as listed
RECURSIVE NextLevel(_)
NextLevel(level) ==
    IF level = <<>> THEN <<>>
    ELSE ListedChildren(Head(level)) \o NextLevel(Tail(level))

\* the nodes level by level from the given level on
RECURSIVE LevelOrder(_)
LevelOrder(level) ==
    IF level = <<>> THEN <<>> ELSE level \o LevelOrder(NextLevel(level))

BreadthFirst == LevelOrder(<<1>>)

\* the bodies of the text/plain nodes with inline data, in the given order
RECURSIVE PlainTextAlong(_)
PlainTextAlong(order) ==
    IF order = <<>> THEN <<>>
    ELSE (IF Head(order) \in PlainWithData
          THEN BodyText(Head(order), NodeCount) ELSE <<>>)
         \o PlainTextAlong(Tail(order))

\* C8: for a message whose payload tree holds several text/plain parts with
\* inline data, get_message_content returns the concatenation of their
\* decoded bodies in breadth-first order: the root first, a whole level
\* before the next, siblings as listed, each body once.
C8_PlainPartsBreadthFirst ==
    Cardinality(PlainWithData) >= 2 =>
        /\ mpc # "raised"
        /\ mpc = "done" => content = PlainTextAlong(BreadthFirst)

C8_Witness ==
    /\ mpc = "done"
    /\ Cardinality(PlainWithData) = 4
    /\ visited = <<1, 2, 4, 3>>

\* C9: for a message with no text/plain node anywhere in its payload tree
\* (only text/html parts, attachments and multipart containers, at any
\* depth), get_message_content raises nothing and returns the empty string.
C9_NoPlainTextGivesEmpty ==
    (\A i \in 1..NodeCount : ~NodeIsPlain(i)) =>
        /\ mpc # "raised"
        /\ content = <<>>

C9_Witness ==
    /\ mpc = "done"
    /\ \A i \in 1..NodeCount : ~NodeIsPlain(i)
    /\ NodeCount = 4
    /\ payload[2].mimeType = "text/html"
    /\ payload[3].mimeType = "text/html"
    /\ ListedChildren(2) # <<>>

\* C10: for a message whose only text/plain part is the root payload node,
\* get_message_content returns exactly the decoded body of that node (the
\* text whose UTF-8 bytes the data encodes), with nothing before or after.
C10_RootPlainTextOnly ==
    ({i \in 1..NodeCount : NodeIsPlain(i)} = {1} /\ NodeHasData(1)) =>
        /\ mpc # "raised"
        /\ mpc = "done" => content = BodyText(1, NodeCount)

C10_Witness ==
    /\ mpc = "done"
    /\ {i \in 1..NodeCount : NodeIsPlain(i)} = {1}
    /\ NodeHasData(1)
    /\ NodeCount = 2
    /\ payload[2].mimeType = "text/html"
    /\ content = <<233>>

----------------------------------------------------------------------------
(* Claims about the helpers of gmail/utils.py, checked under SpecUtils *)

\* the message has a header with exactly this name
HasHeader(name) ==
    \E k \in 1..Len(message.payload.headers) : message.payload.headers[k].name = name

\* the message has exactly one header with this name
HasHeaderOnce(name) ==
    Cardinality({k \in 1..Len(message.payload.headers) :
                    message.payload.headers[k].name = name}) = 1

\* the value of the one header with this name
HeaderValue(name) ==
    message.payload.headers[CHOOSE k \in 1..Len(message.payload.headers) :
                                message.payload.headers[k].name = name].value

\* C11: normalize_message_id strips exactly one leading "id_" when the
\* identifier starts with it, so the identifier is "id_" followed by the
\* result, and returns every other identifier unchanged; "id_id_X" gives
\* "id_X", not "X".
C11_NormalizeStripsOnePrefix ==
    upc = "normalized" =>
        /\ IF Len(message_id) >= 3 /\ message_id[1] = "i"
                /\ message_id[2] = "d" /\ message_id[3] = "_"
           THEN message_id = <<"i", "d", "_">> \o normalized
           ELSE normalized = message_id
        /\ message_id = <<"i", "d", "_", "i", "d", "_", "X">>
              => normalized = <<"i", "d", "_", "X">>
        /\ message_id = <<"i", "d", "_", "X">> => normalized = <<"X">>
        /\ message_id = <<"X">> => normalized = <<"X">>

C11_Witness ==
    /\ upc = "normalized"
    /\ message_id = <<"i", "d", "_", "i", "d", "_", "X">>
    /\ normalized = <<"i", "d", "_", "X">>

\* C13: format_email_metadata does not raise when any of From, To, Subject,
\* Date is missing from the header list, and returns the empty string for
\* each missing one; the names are matched case-sensitively, so "from" and
\* "SUBJECT" do not count as From and Subject.
C13_MissingHeadersGiveEmpty ==
    upc = "formatted" =>
        /\ metadata /= KeyError
        /\ ~HasHeader("From") => metadata.from = <<>>
        /\ ~HasHeader("To") => metadata.to = <<>>
        /\ ~HasHeader("Subject") => metadata.subject = <<>>
        /\ ~HasHeader("Date") => metadata.date = <<>>

C13_Witness ==
    /\ upc = "formatted"
    /\ HasHeader("from") /\ HasHeader("SUBJECT")
    /\ ~HasHeader("From") /\ ~HasHeader("Subject")
    /\ HasHeader("To")
    /\ metadata.from = <<>> /\ metadata.subject = <<>>
    /\ metadata.to /= <<>>

\* C14: for a message that carries id, threadId, labelIds, snippet and each of
\* the headers From, To, Subject, Date once, format_email_metadata returns the
\* eight fields equal to the message's values, labelIds in the message's order.
C14_FieldsCopiedUnaltered ==
    ( /\ upc = "formatted"
      /\ {"labelIds", "snippet"} \subseteq DOMAIN message
      /\ \A n \in {"From", "To", "Subject", "Date"} : HasHeaderOnce(n) )
    =>
        /\ metadata /= KeyError
        /\ DOMAIN metadata = {"id", "threadId", "labelIds", "snippet",
                              "from", "to", "subject", "date"}
        /\ metadata.id = message.id
        /\ metadata.threadId = message.threadId
        /\ metadata.labelIds = message.labelIds
        /\ metadata.snippet = message.snippet
        /\ metadata.from = HeaderValue("From")
        /\ metadata.to = HeaderValue("To")
        /\ metadata.subject = HeaderValue("Subject")
        /\ metadata.date = HeaderValue("Date")

C14_Witness ==
    /\ upc = "formatted"
    /\ message.payload.headers = Headers(<<"Date", "From", "To", "Subject">>)
    /\ "snippet" \in DOMAIN message
    /\ "labelIds" \in DOMAIN message
    /\ message.labelIds = <<"UNREAD", "INBOX">>
    /\ metadata.labelIds = <<"UNREAD", "INBOX">>
    /\ metadata.from = ValueAt(2)
    /\ metadata.date = ValueAt(1)

----------------------------------------------------------------------------
(* Claims about the handlers, checked under SpecOps *)

\* the provider calls of this invocation that carry a message or thread id
IdCalls ==
    {k \in 1..Len(apiLog) :
        apiLog[k].api \in {"messages.get", "threads.get", "messages.modify", "messages.trash"}}

\* the calls of this invocation to one API method
CallsTo(api) == {k \in 1..Len(apiLog) : apiLog[k].api = api}

\* the labels, as listed when the handler started, whose name is the requested
\* one ignoring case
Matching == {k \in 1..Len(list0) : Lower(list0[k].name) = Lower(inv.label)}

\* C12: in every entry point that takes a message or thread identifier (tools,
\* message resource, CLI subcommands) the identifier of each provider call is
\* the caller's identifier with the "id_" prefix stripped once.
C12_IdNormalizedOnce ==
    inv.name \in IdNames =>
        \A k \in IdCalls : apiLog[k].id = normalize_message_id(inv.id)

\* C15: no tool or resource handler raises: whichever provider call fails,
\* the handler ends by returning an "Error ..." text.
C15_NoErrorPassesBoundary ==
    inv.front \in {"tool", "resource"} => out /= "raised"

\* C16: in add_label, when an existing label has the requested name ignoring
\* case, no label is created and the modify call adds the id of the first such
\* label in the provider's list order.
C16_ExistingLabelReused ==
    (inv.name = "add_label" /\ Matching /= {} /\ Len(apiLog) >= 2) =>
        /\ CallsTo("labels.create") = {}
        /\ labelList = list0
        /\ Len(apiLog) = 2
        /\ apiLog[2].api = "messages.modify"
        /\ apiLog[2].remove = {}
        /\ \E k \in Matching :
              /\ \A j \in Matching : k <= j
              /\ apiLog[2].add = {list0[k].id}
              /\ label_id = list0[k].id
              /\ out = "text" => msgLabels = labels0 \cup {list0[k].id}

C16_Witness ==
    /\ inv.name = "add_label"
    /\ inv.front = "tool"
    /\ inv.label = <<"W", "k">>
    /\ list0 = <<[id |-> "L1", name |-> <<"w", "k">>], [id |-> "L2", name |-> <<"W", "k">>]>>
    /\ out = "text"
    /\ "L1" \in msgLabels
    /\ "L2" \notin msgLabels
    /\ CallsTo("labels.create") = {}

\* C17: in add_label, when no existing label has the requested name, the call
\* after the list call is the one label-create call; the modify call comes
\* after it and adds the id of the label just created, and after a successful
\* call that id is among the message's labels.
C17_MissingLabelCreatedOnce ==
    (inv.name = "add_label" /\ Matching = {} /\ Len(apiLog) >= 2) =>
        /\ CallsTo("labels.create") = {2}
        /\ apiLog[2].name = inv.label
        /\ CallsTo("messages.modify") \subseteq {3}
        /\ Len(apiLog) <= 3
        /\ Len(apiLog) = 3 =>
              /\ Len(labelList) = Len(list0) + 1
              /\ labelList[Len(labelList)].name = inv.label
              /\ \A k \in 1..Len(list0) : list0[k].id /= labelList[Len(labelList)].id
              /\ apiLog[3].add = {labelList[Len(labelList)].id}
              /\ apiLog[3].remove = {}
              /\ out = "text" => labelList[Len(labelList)].id \in msgLabels

C17_Witness ==
    /\ inv.name = "add_label"
    /\ inv.front = "tool"
    /\ inv.label = <<"W", "k">>
    /\ list0 = <<[id |-> "L1", name |-> <<"h">>]>>
    /\ out = "text"
    /\ Len(apiLog) = 3
    /\ labelList[2] = [id |-> "L2", name |-> <<"W", "k">>]
    /\ "L2" \in msgLabels
    /\ "L2" \notin labels0

\* C20: a successful mark_as_read leaves the message without UNREAD, a
\* successful mark_as_unread leaves it with UNREAD; each handler issues one
\* modify request that names UNREAD only, so the other labels stay.
C20_ReadUnreadTouchOnlyUnread ==
    /\ inv.name = "mark_as_read" =>
          /\ Len(apiLog) = 1
          /\ apiLog[1].api = "messages.modify"
          /\ apiLog[1].remove = {"UNREAD"} /\ apiLog[1].add = {}
          /\ out = "text" => "UNREAD" \notin msgLabels
          /\ out = "text" => msgLabels \ {"UNREAD"} = labels0 \ {"UNREAD"}
    /\ inv.name = "mark_as_unread" =>
          /\ Len(apiLog) = 1
          /\ apiLog[1].api = "messages.modify"
          /\ apiLog[1].add = {"UNREAD"} /\ apiLog[1].remove = {}
          /\ out = "text" => "UNREAD" \in msgLabels
          /\ out = "text" => msgLabels \ {"UNREAD"} = labels0 \ {"UNREAD"}

C20_Witness ==
    /\ inv.name = "mark_as_unread"
    /\ inv.front = "tool"
    /\ out = "text"
    /\ prev = "mark_as_read"
    /\ labels0 = {"INBOX", "L1"}
    /\ msgLabels = {"INBOX", "L1", "UNREAD"}

----------------------------------------------------------------------------
(* Claims about the listing handlers, checked under SpecListing *)

\* C18: every inbox listing (tool, resource, CLI) sends its list call with a
\* maxResults between 1 and 50, whatever count was asked for.
C18_InboxMaxResultsInRange ==
    inv.name = "get_inbox" =>
        \A k \in CallsTo("messages.list") :
            apiLog[k].maxResults >= 1 /\ apiLog[k].maxResults <= 50

\* C19: the search tool sends its list call with maxResults = min(max(1, n), 100)
\* for the requested count n: 1 below 1, 100 above 100, n itself in between.
C19_SearchMaxResultsClamped ==
    (inv.front = "tool" /\ inv.name = "search_emails") =>
        /\ CallsTo("messages.list") = {1}
        /\ apiLog[1].maxResults =
              IF inv.count < 1 THEN 1 ELSE IF inv.count > 100 THEN 100 ELSE inv.count

C19_Witness ==
    /\ inv.front = "tool"
    /\ inv.name = "search_emails"
    /\ inv.count = 500
    /\ apiLog[1].maxResults = 100
    /\ out = "text"

----------------------------------------------------------------------------
(* Further claims about the handlers, checked under SpecOps *)

\* C21: archive_message issues one modify request that removes INBOX and adds
\* nothing; after a successful call on a message that carried INBOX the
\* message has no INBOX label and every other label it had.
C21_ArchiveRemovesInboxOnly ==
    inv.name = "archive_message" =>
        /\ Len(apiLog) = 1
        /\ apiLog[1].api = "messages.modify"
        /\ apiLog[1].remove = {"INBOX"}
        /\ apiLog[1].add = {}
        /\ (out = "text" /\ "INBOX" \in labels0) =>
              /\ "INBOX" \notin msgLabels
              /\ msgLabels = labels0 \ {"INBOX"}

C21_Witness ==
    /\ inv.name = "archive_message"
    /\ inv.front = "tool"
    /\ out = "text"
    /\ labels0 = {"INBOX", "UNREAD", "L1"}
    /\ msgLabels = {"UNREAD", "L1"}

----------------------------------------------------------------------------
(* Claims about a run of the command line program, checked under SpecCli *)

\* the process has ended with a non-zero status: sys.exit(1), or an exception
\* that no handler caught
NonZeroExit == result = "exit1" \/ out = "raised"

\* initialize_gmail_service failed: get_credentials or build raised
InitFailed == entry = "cli" /\ pc = "done" /\ err /= "none"

\* C22: in CLI mode, when the credential cannot be obtained the process exits
\* with a non-zero status and the subcommand issues no provider call; a
\* provider call is issued only after the service has been built.
C22_NoCredentialExitsBeforeCommand ==
    /\ (entry = "cli" /\ pc = "done"
          /\ err \in {"RefreshError", "TransportError", "FlowError"}) =>
          /\ result = "exit1"
          /\ inv = NoInvocation
          /\ apiLog = <<>>
          /\ opc = "idle"
    /\ apiLog /= <<>> => (pc = "service" /\ result = "returned" /\ err = "none")

C22_Witness ==
    /\ entry = "cli"
    /\ pc = "done"
    /\ err = "RefreshError"
    /\ result = "exit1"
    /\ apiLog = <<>>

\* C23: in CLI mode a provider error inside a subcommand is caught by the
\* subcommand and reported as an "Error ..." line; the process exits with a
\* non-zero status only when service initialization failed.
C23_CliSubcommandsCatchErrors ==
    /\ inv.front = "cli" => out /= "raised"
    /\ (inv.front = "cli" /\ opc = "done") => out \in {"text", "error"}
    /\ NonZeroExit => (InitFailed /\ apiLog = <<>>)

C23_Witness ==
    /\ inv.front = "cli"
    /\ inv.name = "add_label"
    /\ opc = "done"
    /\ out = "error"
    /\ apiLog[Len(apiLog)].api = "labels.create"
    /\ result = "returned"
    /\ ~NonZeroExit

----------------------------------------------------------------------------
(* Claims about the service handle, checked under SpecLife *)

\* C24: the service handle exists exactly from the successful authentication
\* at entry until the scope is left: after leaving gmail_lifespan or the
\* GmailClient context manager, whether normally, by an error in the body or
\* by a failed authentication, GmailClient.service and gmail_service are None.
C24_ServiceTornDownOnLeave ==
    /\ lpc \in {"out", "auth", "left"} => (service = "None" /\ gmail_service = "None")
    /\ lpc = "body" => service = "service"
    /\ (lpc = "body" /\ scope = "lifespan") => gmail_service = "service"

C24_Witness ==
    /\ lpc = "left"
    /\ left = Scopes \X {"normal", "error", "auth_failed"}
    /\ service = "None"
    /\ gmail_service = "None"

----------------------------------------------------------------------------
(* Further claims about the listing handlers, checked under SpecListing *)

\* the ids of the get calls of this invocation, in the order they were issued
Fetched == [k \in 1..(Len(apiLog) - 1) |-> apiLog[k + 1].id]

\* C25: a listing invocation (inbox or search) issues one list call, then one
\* get call per message of the page the list returned, in the page's order:
\* the get calls are always a prefix of the page, so no call is repeated after
\* a failure and no second page is asked for.
C25_OneListThenOneGetEach ==
    (inv.name \in ListingNames /\ opc /= "idle") =>
        /\ CallsTo("messages.list") = {1}
        /\ CallsTo("messages.get") = 2..Len(apiLog)
        /\ Len(Fetched) <= Len(messages)
        /\ Fetched = SubSeq(messages, 1, Len(Fetched))
        /\ (opc = "done" /\ out = "text") => Fetched = messages
        /\ (opc = "await" /\ Len(apiLog) >= 2) => Len(Fetched) >= 1

C25_Witness ==
    /\ inv.name = "get_inbox"
    /\ inv.front = "tool"
    /\ opc = "done"
    /\ out = "text"
    /\ messages = <<<<"X", "X">>, <<"X">>>>
    /\ Len(apiLog) = 3
    /\ apiLog[2].id = <<"X", "X">>
    /\ apiLog[3].id = <<"X">>

----------------------------------------------------------------------------
(* Further claims about the credential lifecycle, checked under Spec *)

\* the refresh token of the stored record, 0 when there is none
StoredRefreshToken ==
    IF tokenFile = NoFile THEN 0 ELSE LoadCreds(tokenFile).refresh_token

\* C26: over any sequence of GmailClient.get_credentials calls, a refresh token
\* the provider has rejected is never tried again and never stored again: the
\* record is removed before the interactive flow starts, it stays removed
\* when that flow fails, a later call that finds no record goes to the flow
\* without a refresh, and a call whose flow succeeds returns a valid
\* credential that is stored.
C26_RejectedTokenNeverBlocks ==
    /\ StoredRefreshToken \notin rejected
    /\ (entry = "client" /\ pc = "refresh") => creds.refresh_token \notin rejected
    /\ (entry = "client" /\ refreshOutcome = "RefreshError") =>
          /\ pc = "flow" => tokenFile = NoFile
          /\ Failed => (tokenFile = NoFile /\ err = "FlowError")
    /\ (entry = "client" /\ loaded = None) =>
          /\ ~Logged("refresh")
          /\ pc \in {"flow", "done"}
    /\ (entry = "client" /\ Returned /\ Logged("flow")) =>
          /\ Valid(creds)
          /\ LoadCreds(tokenFile) = creds
          /\ creds.refresh_token \notin rejected

C26_Witness ==
    /\ rejected /= {}
    /\ entry = "client"
    /\ file0 = NoFile
    /\ loaded = None
    /\ Returned
    /\ calls = <<"flow", "write">>
    /\ Valid(creds)

\* C27: a call that returns after a refresh or an interactive authorization
\* has written exactly the returned credential, as its last step; the token
\* file is written on no other path, so after a failed refresh or a failed
\* authorization it is what it was when the call started, or removed.
C27_StoreHoldsReturnedCredential ==
    /\ (Returned /\ (Logged("refresh") \/ Logged("flow"))) =>
          /\ calls[Len(calls)] = "write"
          /\ tokenFile = to_json(creds)
          /\ LoadCreds(tokenFile) = creds
          /\ Valid(creds)
    /\ Logged("write") =>
          /\ Returned
          /\ Len(calls) >= 2
          /\ \A k \in 1..Len(calls) : calls[k] = "write" => k = Len(calls)
          /\ calls[Len(calls) - 1] \in {"refresh", "flow"}
    /\ (InCall /\ ~Logged("write")) => tokenFile \in {file0, NoFile}
    /\ Failed => (~Logged("write") /\ tokenFile \in {file0, NoFile})

C27_Witness ==
    /\ entry = "client"
    /\ Failed
    /\ err = "TransportError"
    /\ file0 /= NoFile
    /\ tokenFile = file0
    /\ calls = <<"refresh">>

----------------------------------------------------------------------------
(* A further claim about get_message_content, checked under SpecContent *)

\* the node and everything below it
RECURSIVE Subtree(_)
Subtree(i) ==
    {i} \cup UNION {Subtree(ListedChildren(i)[k]) : k \in 1..Len(ListedChildren(i))}

\* the nodes the worklist still stands for: the queued ones and all below them
Outstanding == UNION {Subtree(parts[k]) : k \in 1..Len(parts)}

NoRepeats(s) == \A j, k \in 1..Len(s) : s[j] = s[k] => j = k

\* the parent of node j is node i
IsChildOf(j, i) == \E k \in 1..Len(ListedChildren(i)) : ListedChildren(i)[k] = j

----------------------------------------------------------------------------
(* Further claims about add_label, checked under SpecOps *)

\* the create call of this add_label invocation has raised
CreateFailed ==
    /\ inv.name = "add_label"
    /\ opc = "done"
    /\ Pending.api = "labels.create"

\* C29: in the add_label_to_message tool, when no existing label matches and
\* the label-create call fails, the tool returns an "Error creating label"
\* text, issues no modify call, and leaves the labels of the message (and the
\* label list) as they were.
C29_FailedCreateStopsTheTool ==
    /\ (inv.front = "tool" /\ CreateFailed) =>
          /\ Matching = {}
          /\ label_id = "None"
          /\ out = "error"
          /\ AddLabelError(inv.front, Pending.api) = "Error creating label"
          /\ CallsTo("messages.modify") = {}
          /\ Len(apiLog) = 2
          /\ msgLabels = labels0
          /\ labelList = list0
    \* a modify call after a create call is one the created label stands behind
    /\ (inv.front = "tool" /\ inv.name = "add_label"
          /\ CallsTo("labels.create") /= {} /\ CallsTo("messages.modify") /= {}) =>
          /\ labelList = Append(list0, [id |-> label_id, name |-> inv.label])
          /\ label_id /= "None"

C29_Witness ==
    /\ inv.front = "tool"
    /\ CreateFailed
    /\ inv.label = <<"W", "k">>
    /\ list0 = <<[id |-> "L1", name |-> <<"h">>]>>
    /\ labels0 = {"INBOX", "UNREAD"}
    /\ out = "error"

\* the labels of the provider's list whose name is the given one ignoring case
SameName(name) == {k \in 1..Len(labelList) : Lower(labelList[k].name) = Lower(name)}

\* C30: over any sequence of add_label invocations that run one after another,
\* at most one label is created per case-insensitive label name: the names
\* created differ pairwise ignoring case, each of them names exactly one label
\* of the provider's list ever after, and an invocation that finds a label
\* with its name, in whatever case, issues no create call and adds that label.
C30_OneLabelPerName ==
    /\ \A j, k \in 1..Len(creations) :
          Lower(creations[j]) = Lower(creations[k]) => j = k
    /\ \A k \in 1..Len(creations) : Cardinality(SameName(creations[k])) = 1
    /\ (inv.name = "add_label"
          /\ \E k \in 1..Len(creations) : Lower(creations[k]) = Lower(inv.label)
          /\ CallsTo("labels.create") = {}) =>
          /\ Matching /= {}
          /\ labelList = list0
          /\ \A k \in CallsTo("messages.modify") :
                apiLog[k].add = {labelList[CHOOSE m \in SameName(inv.label) : TRUE].id}
    /\ (inv.name = "add_label" /\ Matching /= {}) => CallsTo("labels.create") = {}

C30_Witness ==
    /\ creations = <<  <<"W", "k">>  >>
    /\ prev = "add_label"
    /\ inv.name = "add_label"
    /\ inv.label = <<"w", "k">>
    /\ list0 = <<[id |-> "L1", name |-> <<"h">>], [id |-> "L2", name |-> <<"W", "k">>]>>
    /\ labelList = list0
    /\ out = "text"
    /\ Len(apiLog) = 2
    /\ apiLog[2].add = {"L2"}
    /\ "L2" \in labels0

====
